---------------------------- MODULE Spec2Model ----------------------------
(***************************************************************************)
(* Model of polars-io/src/csv_core/csv.rs: SequentialReader (schema,       *)
(* find_starting_point, parse_csv, as_df).                                 *)
(*                                                                         *)
(* Bytes are one-character tokens.  Offsets are 0-based as in the Rust     *)
(* code: bytes[a..b] is SubSeq(bytes, a+1, b).  Option<T> is a record with *)
(* a boolean field "some".  The f32 arithmetic of the row estimate is      *)
(* modelled by exact real arithmetic on integers (see total_rows_estimate  *)
(* and n_bytes_cutoff).                                                    *)
(*                                                                         *)
(* The byte scanner, the chunker, the line parser and the line statistics  *)
(* (csv_core::utils, csv_core::parser, csv_core::buffer) are called by     *)
(* csv.rs but are not part of src/; they are modelled from sections 4.1 to *)
(* 4.5 of spec.md.                                                         *)
(***************************************************************************)
EXTENDS Integers, Sequences, FiniteSets, TLC

\* ------------------------------------------------------------ bounds
\* Largest number of data lines of a generated input.
MaxLines == 3
\* Largest number of as_df calls made on one reader.
MaxCalls == 2
\* Largest n_threads of a reader.
MaxThreads == 2
\* Largest number of data lines of an input of SpecRows, and largest n_rows.
MaxRowLines == 4
MaxNRows == 4
\* Largest number of lines of an input of SpecPre, and largest skip_rows.
MaxPreLines == 3
MaxSkip == 2
\* Largest number of column names given to build_csv_reader.
MaxColumns == 2
\* Largest number of lines of an input of SpecCap.
MaxCapLines == 3
\* Largest number of lines of an input of SpecAgg.
MaxAggLines == 3
\* num_cpus::get() of the host, used when n_threads is None.
HostCpus == 2

\* ------------------------------------------------------------- bytes
LF == "LF"
CR == "CR"
QUOTE == "Q"
SPACE == "SP"
COMMA == ","
BOM == <<"EF", "BB", "BF">>

None == [some |-> FALSE]
Some(x) == [some |-> TRUE, v |-> x]

Min(a, b) == IF a <= b THEN a ELSE b
Max(a, b) == IF a >= b THEN a ELSE b

\* bytes[n..]
Drop(bytes, n) == SubSeq(bytes, n + 1, Len(bytes))
\* bytes[..n]
Take(bytes, n) == SubSeq(bytes, 1, n)

RECURSIVE Flatten(_)
Flatten(ss) == IF ss = <<>> THEN <<>> ELSE Head(ss) \o Flatten(Tail(ss))

\* ------------------------------------------------------ byte scanner
\* Number of bytes consumed by each skip (spec.md 4.1).
skip_bom(bytes) ==
    IF Len(bytes) >= 3 /\ Take(bytes, 3) = BOM THEN 3 ELSE 0

RECURSIVE skip_whitespace(_)
skip_whitespace(bytes) ==
    IF bytes # <<>> /\ Head(bytes) = SPACE
    THEN 1 + skip_whitespace(Tail(bytes))
    ELSE 0

skip_line_ending(bytes) ==
    IF Len(bytes) >= 2 /\ bytes[1] = CR /\ bytes[2] = LF THEN 2
    ELSE IF Len(bytes) >= 1 /\ bytes[1] \in {LF, CR} THEN 1
    ELSE 0

\* 1-based index of the first byte at or after i that ends an unquoted
\* field: the delimiter, a terminator, or Len+1.
RECURSIVE FieldEnd(_, _, _)
FieldEnd(bytes, i, delimiter) ==
    IF i > Len(bytes) \/ bytes[i] \in {delimiter, LF, CR} THEN i
    ELSE FieldEnd(bytes, i + 1, delimiter)

\* A quoted field whose opening quote is at i - 1: "" is a literal quote,
\* every other byte up to the closing quote is literal.
RECURSIVE QuotedField(_, _, _, _)
QuotedField(bytes, i, delimiter, acc) ==
    IF i > Len(bytes) THEN [val |-> acc, next |-> i]
    ELSE IF bytes[i] = QUOTE
         THEN IF i + 1 <= Len(bytes) /\ bytes[i + 1] = QUOTE
              THEN QuotedField(bytes, i + 2, delimiter, Append(acc, QUOTE))
              ELSE [val |-> acc, next |-> FieldEnd(bytes, i + 1, delimiter)]
         ELSE QuotedField(bytes, i + 1, delimiter, Append(acc, bytes[i]))

\* The field that starts at i: its unescaped bytes and the index of the
\* byte that ends it.
ScanField(bytes, i, delimiter) ==
    IF i <= Len(bytes) /\ bytes[i] = QUOTE
    THEN QuotedField(bytes, i + 1, delimiter, <<>>)
    ELSE LET e == FieldEnd(bytes, i, delimiter)
         IN  [val |-> SubSeq(bytes, i, e - 1), next |-> e]

\* The record that starts at i: its fields and the index at which the next
\* record starts (records end with LF, CR or CR LF, or with the region).
RECURSIVE ScanRecord(_, _, _, _)
ScanRecord(bytes, i, delimiter, acc) ==
    LET f == ScanField(bytes, i, delimiter)
        fields == Append(acc, f.val)
        e == f.next
    IN  IF e > Len(bytes) THEN [fields |-> fields, next |-> e]
        ELSE IF bytes[e] = delimiter
             THEN ScanRecord(bytes, e + 1, delimiter, fields)
             ELSE IF bytes[e] = CR /\ e + 1 <= Len(bytes) /\ bytes[e + 1] = LF
                  THEN [fields |-> fields, next |-> e + 2]
                  ELSE [fields |-> fields, next |-> e + 1]

\* skip_header: one logical line, quote-aware.
skip_header(bytes) ==
    IF bytes = <<>> THEN 0
    ELSE Min(ScanRecord(bytes, 1, COMMA, <<>>).next - 1, Len(bytes))

\* Byte p (1-based) is the last byte of a record terminator.
EndsTerminator(bytes, p) ==
    \/ bytes[p] = LF
    \/ bytes[p] = CR /\ ~(p + 1 <= Len(bytes) /\ bytes[p + 1] = LF)

\* The offsets after a terminator at which a candidate record starts that
\* holds at least expected_fields - 1 unquoted delimiters.
LinePositions(input, expected_fields, delimiter) ==
    {p \in 1..(Len(input) - 1) :
        /\ EndsTerminator(input, p)
        /\ Len(ScanRecord(input, p + 1, delimiter, <<>>).fields)
               >= expected_fields}

next_line_position(input, expected_fields, delimiter) ==
    LET ps == LinePositions(input, expected_fields, delimiter)
    IN  IF ps = {} THEN None
        ELSE Some(CHOOSE p \in ps : \A q \in ps : p <= q)

\* ------------------------------------------------------------ errors
NoData == [kind |-> "NoData", msg |-> "not enough lines to skip"]
MustBeSet == [kind |-> "Other", msg |-> "file or reader must be set"]
\* A field of schema column `column` failed to decode in the record number
\* `line` (0-based) of the sub-region whose offset argument was `read`.
ParseError(read, line, column) ==
    [kind |-> "ParseError", read |-> read, line |-> line, column |-> column]
PredicateError == [kind |-> "PredicateError"]

Ok(x) == [ok |-> TRUE, v |-> x]
Err(e) == [ok |-> FALSE, err |-> e]

\* ------------------------------------------------ find_starting_point
NFields(self) == Len(self.schema)

RECURSIVE SkipRows(_, _, _, _)
SkipRows(self, bytes, off, n) ==
    IF n = 0 THEN Ok(off)
    ELSE LET pos == next_line_position(Drop(bytes, off), NFields(self),
                                       self.delimiter)
         IN  IF ~pos.some THEN Err(NoData)
             ELSE SkipRows(self, bytes, off + pos.v, n - 1)

\* Ok(off): parsing starts at bytes[off..].
find_starting_point(self, bytes) ==
    LET o1 == skip_bom(bytes)
        o2 == o1 + skip_whitespace(Drop(bytes, o1))
        o3 == o2 + skip_line_ending(Drop(bytes, o2))
        o4 == IF self.has_header
              THEN o3 + skip_header(Drop(bytes, o3))
              ELSE o3
    IN  SkipRows(self, bytes, o4, self.skip_rows)

\* --------------------------------------------------------- statistics
\* Lengths (terminator included) of the first n lines from index start.
RECURSIVE LineLengths(_, _, _)
LineLengths(bytes, start, n) ==
    LET ends == {p \in start..Len(bytes) : EndsTerminator(bytes, p)}
    IN  IF n = 0 \/ ends = {} THEN <<>>
        ELSE LET e == CHOOSE p \in ends : \A q \in ends : p <= q
             IN  <<e - start + 1>> \o LineLengths(bytes, e + 1, n - 1)

RECURSIVE SumSeq(_)
SumSeq(s) == IF s = <<>> THEN 0 ELSE Head(s) + SumSeq(Tail(s))

\* Some([n, sum, dev]) when n_lines terminators were found: mean is sum/n
\* and the standard deviation is sqrt(dev)/n, dev = n*sum(len^2) - sum^2.
get_line_stats(bytes, n_lines) ==
    LET lens == LineLengths(bytes, 1, n_lines)
        sum == SumSeq(lens)
        sq == SumSeq([i \in 1..Len(lens) |-> lens[i] * lens[i]])
    IN  IF Len(lens) < n_lines THEN None
        ELSE Some([n |-> n_lines, sum |-> sum, dev |-> n_lines * sq - sum * sum])

\* (bytes.len() as f32 / (mean - 0.01 * std)) as usize, in exact arithmetic:
\* the largest k with k * (100*sum - sqrt(dev)) <= 100 * n * len.  The search
\* range holds it when 0.01 * std <= mean / 2, true of every sample of at
\* most 2500 lines.
total_rows_estimate(len, st) ==
    LET Fits(k) == LET a == 100 * k * st.sum - 100 * st.n * len
                   IN  a <= 0 \/ a * a <= k * k * st.dev
    IN  CHOOSE k \in 0..(2 * len) : Fits(k) /\ ~Fits(k + 1)

\* ((mean + 1.1 * std) * n_rows) as usize when it is below len, else len (the
\* code uses it only when it is below bytes.len()): the largest k with
\* 10 * n * k <= n_rows * (10*sum + 11*sqrt(dev)).
n_bytes_cutoff(len, st, n_rows) ==
    LET Fits(k) == LET a == 10 * st.n * k - 10 * n_rows * st.sum
                   IN  a <= 0 \/ a * a <= 121 * n_rows * n_rows * st.dev
    IN  IF Fits(len) THEN len
        ELSE CHOOSE k \in 0..(len - 1) : Fits(k) /\ ~Fits(k + 1)

DefaultTotalRows == 128

\* Lines 159-173, n_rows set: the estimate capped and the region cut at the
\* record boundary found from n_bytes on, when there is one.
cut_region(self, bytes, guess, n_bytes) ==
    [total_rows |-> Min(self.n_rows.v, guess),
     stop |-> IF n_bytes < Len(bytes)
                 /\ next_line_position(Drop(bytes, n_bytes), NFields(self),
                                       self.delimiter).some
              THEN n_bytes + next_line_position(Drop(bytes, n_bytes),
                                 NFields(self), self.delimiter).v
              ELSE Len(bytes)]

\* Lines 148-178 for the statistics st.
estimate_with(self, bytes, st) ==
    IF ~st.some
    THEN [total_rows |-> DefaultTotalRows, stop |-> Len(bytes)]
    ELSE IF ~self.n_rows.some
         THEN [total_rows |-> total_rows_estimate(Len(bytes), st.v),
               stop |-> Len(bytes)]
         ELSE cut_region(self, bytes,
                         total_rows_estimate(Len(bytes), st.v),
                         n_bytes_cutoff(Len(bytes), st.v, self.n_rows.v))

\* Lines 144-178: [total_rows, stop]: the row estimate and the length of the
\* region kept for parsing.
estimate(self, bytes) ==
    estimate_with(self, bytes, get_line_stats(bytes, self.sample_size))

\* ------------------------------------------------------------ chunker
\* At most n_threads sub-regions (start, end), left to right, covering
\* bytes, each boundary found by next_line_position from the target size on.
RECURSIVE FileChunks(_, _, _, _, _, _)
FileChunks(bytes, size, left, last_pos, expected_fields, delimiter) ==
    LET search_pos == last_pos + size
        pos == IF left > 0 /\ search_pos < Len(bytes)
               THEN next_line_position(Drop(bytes, search_pos),
                                       expected_fields, delimiter)
               ELSE None
    IN  IF ~pos.some THEN << <<last_pos, Len(bytes)>> >>
        ELSE << <<last_pos, search_pos + pos.v>> >>
             \o FileChunks(bytes, size, left - 1, search_pos + pos.v,
                           expected_fields, delimiter)

get_file_chunks(bytes, n_threads, expected_fields, delimiter) ==
    FileChunks(bytes, Len(bytes) \div n_threads, n_threads - 1, 0,
               expected_fields, delimiter)

\* ------------------------------------------------------ line parser
Null == <<"null">>
Invalid == <<"invalid">>
Digits == {"1"}

\* A column buffer's append_value: an empty numeric field is a null, a
\* numeric field of digits is its value, any other numeric field fails to
\* decode; a string field is copied.
decode(dtype, val) ==
    IF dtype = "str" THEN val
    ELSE IF val = <<>> THEN Null
    ELSE IF \A i \in 1..Len(val) : val[i] \in Digits THEN val
    ELSE Invalid

\* One field-index counter f runs over the record's fields (the fields past
\* the schema are dropped); buffer k takes field f when f is the k-th entry
\* of the projection; the buffers not reached are padded with nulls.
RECURSIVE RowOf(_, _, _, _, _, _)
RowOf(fields, schema, projection, f, k, acc) ==
    IF k > Len(projection) THEN acc
    ELSE IF f >= Len(fields) \/ f >= Len(schema)
         THEN RowOf(fields, schema, projection, f, k + 1, Append(acc, Null))
         ELSE IF projection[k] = f
              THEN RowOf(fields, schema, projection, f + 1, k + 1,
                         Append(acc, decode(schema[f + 1], fields[f + 1])))
              ELSE RowOf(fields, schema, projection, f + 1, k, acc)

\* The row with its fields that failed to decode made null.
Nulled(row) == [k \in 1..Len(row) |-> IF row[k] = Invalid THEN Null ELSE row[k]]

\* The position in the row of the first field that failed to decode, or 0.
FirstInvalid(row) ==
    IF \A k \in 1..Len(row) : row[k] # Invalid THEN 0
    ELSE CHOOSE k \in 1..Len(row) :
             row[k] = Invalid /\ \A j \in 1..(k - 1) : row[j] # Invalid

\* Ok(rows) or the error of the first field that fails to decode.
RECURSIVE ParseRecords(_, _, _, _, _, _, _, _, _)
RECURSIVE ParseRow(_, _, _, _, _, _, _, _, _, _)
ParseRow(bytes, next, line, read, delimiter, projection, schema, ignore, acc, row) ==
    IF FirstInvalid(row) # 0 /\ ~ignore
    THEN Err(ParseError(read, line, projection[FirstInvalid(row)]))
    ELSE ParseRecords(bytes, next, line + 1, read, delimiter, projection,
                      schema, ignore, Append(acc, Nulled(row)))

RECURSIVE ParseRecord(_, _, _, _, _, _, _, _, _)
ParseRecord(bytes, rec, line, read, delimiter, projection, schema, ignore, acc) ==
    ParseRow(bytes, rec.next, line, read, delimiter, projection, schema,
             ignore, acc, RowOf(rec.fields, schema, projection, 0, 1, <<>>))

ParseRecords(bytes, i, line, read, delimiter, projection, schema, ignore, acc) ==
    IF i > Len(bytes) THEN Ok(acc)
    ELSE ParseRecord(bytes, ScanRecord(bytes, i, delimiter, <<>>), line, read,
                     delimiter, projection, schema, ignore, acc)

parse_lines(bytes, read, delimiter, projection, schema, ignore_parser_errors) ==
    ParseRecords(bytes, 1, 0, read, delimiter, projection, schema,
                 ignore_parser_errors, <<>>)

\* ------------------------------------------------------------- frames
\* A DataFrame is a sequence of columns [name, dtype, vals]; a parsed
\* column is named by its schema index.
Column(name, dtype, vals) == [name |-> name, dtype |-> dtype, vals |-> vals]

height(df) == IF df = <<>> THEN 0 ELSE Len(df[1].vals)
width(df) == Len(df)
ColumnNames(df) == [c \in 1..Len(df) |-> df[c].name]

\* buffers.into_iter().map(|buf| buf.into_series()): one column per entry
\* of the projection.
FrameOfRows(rows, projection, schema) ==
    [k \in 1..Len(projection) |->
        Column(projection[k], schema[projection[k] + 1],
               [r \in 1..Len(rows) |-> rows[r][k]])]

RECURSIVE SelectSeq2(_, _)
SelectSeq2(vals, mask) ==
    IF vals = <<>> THEN <<>>
    ELSE (IF Head(mask) THEN <<Head(vals)>> ELSE <<>>)
         \o SelectSeq2(Tail(vals), Tail(mask))

filter(df, mask) ==
    [c \in 1..Len(df) |-> [df[c] EXCEPT !.vals = SelectSeq2(@, mask)]]

slice(df, n) ==
    [c \in 1..Len(df) |-> [df[c] EXCEPT !.vals = Take(@, Min(n, Len(@)))]]

vstack(a, b) ==
    [c \in 1..Len(a) |-> [a[c] EXCEPT !.vals = @ \o b[c].vals]]

RECURSIVE accumulate_dataframes_vertical(_)
accumulate_dataframes_vertical(dfs) ==
    IF Len(dfs) = 1 THEN dfs[1]
    ELSE vstack(accumulate_dataframes_vertical(Take(dfs, Len(dfs) - 1)),
                dfs[Len(dfs)])

\* Bytes held by a string column (ca.get_values_size()).
get_values_size(col) ==
    SumSeq([r \in 1..Len(col.vals) |->
               IF col.vals[r] = Null THEN 0 ELSE Len(col.vals[r])])

\* ---------------------------------------------------------- predicate
\* The row predicates of the model: "last_is_x" keeps the rows whose last
\* column holds the one byte x, "fail" returns an error from evaluate.
Predicates == {"last_is_x", "fail"}

evaluate(pred, df) ==
    IF pred = "fail" THEN Err(PredicateError)
    ELSE Ok([r \in 1..height(df) |-> df[Len(df)].vals[r] = <<"x">>])

\* -------------------------------------------------------- aggregation
\* The scan aggregations of the model: the first or the last value of the
\* frame's first column, a column of one row.
Aggregations == {"first", "last"}

finish(scan_agg, df) ==
    LET vals == df[1].vals
    IN  Column(scan_agg, df[1].dtype,
               IF vals = <<>> THEN <<Null>>
               ELSE IF scan_agg = "first" THEN <<vals[1]>>
               ELSE <<vals[Len(vals)]>>)

\* -------------------------------------------------------------- state
VARIABLES
    self,            \* the SequentialReader
    built,           \* the reader as from_reader returned it
    args,            \* build_csv_reader's arguments, when it built the reader
    file,            \* the bytes behind the path and behind the reader
    predicate,       \* as_df's predicate argument (an Option)
    aggregate,       \* as_df's aggregate argument (an Option of a list)
    pc,              \* "idle", or "dispatch" while the pool runs the workers
    call,            \* the locals of the parse_csv call in flight (or last)
    str_capacities,  \* the shared AtomicUsize table
    workers,         \* one entry per sub-region of file_chunks
    saved_error,     \* the error the collect of the pool has saved
    finished,        \* the sub-regions in the order their workers ended
    returns          \* what the as_df calls returned, oldest first

vars == <<self, built, args, file, predicate, aggregate, pc, call, str_capacities,
          workers, saved_error, finished, returns>>

\* ------------------------------------------------------------- reader
\* SequentialReader::schema (lines 58-69).
schema(reader) ==
    IF reader.projection.some
    THEN [k \in 1..Len(reader.projection.v) |->
             reader.schema[reader.projection.v[k] + 1]]
    ELSE reader.schema

\* SequentialReader::from_reader (lines 76-112).
from_reader(sch, has_header, delimiter, projection, ignore_parser_errors, n_rows, skip_rows, n_threads, path, sample_size, chunk_size) ==
    [schema |-> sch,
     projection |-> projection,
     record_iter |-> TRUE,
     line_number |-> IF has_header THEN 1 ELSE 0,
     ignore_parser_errors |-> ignore_parser_errors,
     skip_rows |-> skip_rows,
     n_rows |-> n_rows,
     n_threads |-> n_threads,
     path |-> path,
     has_header |-> has_header,
     delimiter |-> delimiter,
     sample_size |-> sample_size,
     chunk_size |-> chunk_size]

\* The names of the fields of a schema, by position.
FieldNames == <<"a", "b", "c">>

\* Schema::index_of: the index of the field of that name, or an error.
NotFound(col) == [kind |-> "NotFound", name |-> col]

index_of(sch, col) ==
    IF \E i \in 1..Len(sch) : FieldNames[i] = col
    THEN Ok((CHOOSE i \in 1..Len(sch) : FieldNames[i] = col) - 1)
    ELSE Err(NotFound(col))

\* Lines 391-398: the indices of the names, in their order, or the error
\* of the first name that is absent.
RECURSIVE IndicesOf(_, _, _)
IndicesOf(sch, cols, prj) ==
    IF cols = <<>> THEN Ok(prj)
    ELSE LET i == index_of(sch, Head(cols))
         IN  IF ~i.ok THEN i
             ELSE IndicesOf(sch, Tail(cols), Append(prj, i.v))

\* No build_csv_reader call made the reader.
NoArgs == [called |-> FALSE]

\* build_csv_reader keeping an index projection passed alongside the names.
build_csv_reader_keep_projection(n_rows, skip_rows, projection, delimiter, has_header, ignore_parser_errors, sch, columns, n_threads, path, sample_size, chunk_size, inferred) ==
    IF ~sch.some /\ ~inferred.ok THEN inferred
    ELSE LET schema_ == IF sch.some THEN sch.v ELSE inferred.v
             prj == IF columns.some THEN IndicesOf(schema_, columns.v, <<>>)
                    ELSE Ok(<<>>)
         IN  IF ~prj.ok THEN prj
             ELSE Ok(from_reader(schema_, has_header,
                                 IF delimiter.some THEN delimiter.v ELSE COMMA,
                                 IF columns.some /\ ~projection.some
                                 THEN Some(prj.v) ELSE projection,
                                 ignore_parser_errors, n_rows, skip_rows,
                                 n_threads, path, sample_size, chunk_size))

\* build_csv_reader (lines 356-416); `inferred` is what infer_file_schema
\* returns when no schema is supplied.
build_csv_reader(n_rows, skip_rows, projection, delimiter, has_header, ignore_parser_errors, sch, columns, n_threads, path, sample_size, chunk_size, inferred) ==
    IF ~sch.some /\ ~inferred.ok THEN inferred
    ELSE LET schema_ == IF sch.some THEN sch.v ELSE inferred.v
             prj == IF columns.some THEN IndicesOf(schema_, columns.v, <<>>)
                    ELSE Ok(<<>>)
         IN  IF ~prj.ok THEN prj
             ELSE Ok(from_reader(schema_, has_header,
                                 IF delimiter.some THEN delimiter.v ELSE COMMA,
                                 IF columns.some THEN Some(prj.v)
                                 ELSE projection,
                                 ignore_parser_errors, n_rows, skip_rows,
                                 n_threads, path, sample_size, chunk_size))

\* ----------------------------------------------------------- parse_csv
\* sorted_projection with the range of line 192 one column short.
short_projection(reader) ==
    IF reader.projection.some
    THEN SortSeq(reader.projection.v, LAMBDA a, b : a < b)
    ELSE [k \in 1..(Len(reader.schema) - 1) |-> k - 1]

\* Lines 185-192: the projection taken out of the reader and sorted, or
\* every column of the schema.
sorted_projection(reader) ==
    IF reader.projection.some
    THEN SortSeq(reader.projection.v, LAMBDA a, b : a < b)
    ELSE [k \in 1..Len(reader.schema) |-> k - 1]

\* Lines 205-209.
str_columns_of(reader, projection) ==
    SelectSeq(projection, LAMBDA i : reader.schema[i + 1] = "str")

\* Line 256: &bytes[bytes_offset_thread..stop_at_nbytes].
local_bytes(bytes, bytes_offset_thread, stop_at_nbytes) ==
    SubSeq(bytes, bytes_offset_thread + 1, stop_at_nbytes)

\* Lines 268-270: the frame of the buffers parse_lines filled.
frame_of(parsed, projection, sch) ==
    IF ~parsed.ok THEN parsed
    ELSE Ok(FrameOfRows(parsed.v, projection, sch))

\* Line 274: df.filter(mask)?
apply_mask(df, s) == IF ~s.ok THEN s ELSE Ok(filter(df, s.v))

\* Lines 271-275.
apply_predicate(pred, r) ==
    IF ~r.ok \/ ~pred.some THEN r
    ELSE apply_mask(r.v, evaluate(pred.v, r.v))

\* Lines 249-275: a worker's partial frame, or its error.
parse_chunk(reader, c, chunk, pred) ==
    apply_predicate(pred,
        frame_of(parse_lines(local_bytes(c.bytes, chunk[1], chunk[2]),
                             chunk[1], reader.delimiter, c.projection,
                             reader.schema, reader.ignore_parser_errors),
                 c.projection, reader.schema))

\* Lines 280-284 for the string column with schema index i: the frame's
\* column at position i, which must exist and hold strings.
capacity_lookup(df, i) ==
    IF i >= width(df) \/ df[i + 1].dtype # "str" THEN None
    ELSE Some(get_values_size(df[i + 1]))

\* fetch_max storing the value whatever the entry holds.
fetch_store(prev, val) == val

\* Line 284: the value AtomicUsize::fetch_max leaves in the entry.
fetch_max(prev, val) == Max(prev, val)

\* save_error keeping the last error saved instead of the first.
save_last_error(saved, e) == Some(e)

\* What collect::<Result<Vec<_>>> keeps of an error a worker returns: the
\* first one saved stays.
save_error(saved, e) == IF saved.some THEN saved ELSE Some(e)

\* collect_frames stacking the frames in the order the workers ended.
collect_frames_as_finished(ws) ==
    accumulate_dataframes_vertical(
        [j \in 1..Len(finished) |-> ws[finished[j]].res.v])

\* Lines 301-304: the partial frames in sub-region order, stacked.
collect_frames(ws) ==
    accumulate_dataframes_vertical([k \in 1..Len(ws) |-> ws[k].res.v])

\* --------------------------------------------------------------- as_df
\* byte_source taking the reader whenever one is present.
byte_source_reader_first(reader) ==
    IF reader.record_iter THEN "reader"
    ELSE IF reader.path.some THEN "path"
    ELSE "none"

\* Lines 315-333: the arm of the match on (path, record_iter.is_some()).
byte_source(reader) ==
    IF reader.path.some THEN "path"
    ELSE IF reader.record_iter THEN "reader"
    ELSE "none"

\* Lines 323-330: the bytes read from the reader, with the terminator
\* pushed under the guard of line 327.
reader_bytes(bytes) ==
    IF bytes # <<>> /\ (bytes[Len(bytes)] # LF \/ bytes[Len(bytes)] # CR)
    THEN Append(bytes, LF)
    ELSE bytes

\* Lines 336-342.
apply_aggregate(agg, df) ==
    IF ~agg.some THEN Ok(df)
    ELSE IF agg.v # <<>> /\ width(df) = 0 THEN Err("unwrap")
    ELSE Ok([a \in 1..Len(agg.v) |-> finish(agg.v[a], df)])

\* truncate without the slice of line 348.
no_truncate(reader, df) == df

\* Lines 346-350.
truncate(reader, df) ==
    IF reader.n_rows.some /\ reader.n_rows.v < height(df)
    THEN slice(df, reader.n_rows.v)
    ELSE df

\* Results of a call.
Frame(df) == [kind |-> "ok", df |-> df]
Failure(e) == [kind |-> "err", err |-> e]
Panic(at) == [kind |-> "panic", at |-> at]

\* Lines 346-351 on the aggregated frame; the unwrap of line 339 panics.
truncated(reader, a) ==
    IF ~a.ok THEN Panic("aggregate") ELSE Frame(truncate(reader, a.v))

\* finish_df slicing the frame before it is aggregated.
finish_df_truncate_first(reader, agg, df) ==
    truncated(reader, apply_aggregate(agg, truncate(reader, df)))

\* Lines 336-351 applied to the frame parse_csv returned.
finish_df(reader, agg, df) == truncated(reader, apply_aggregate(agg, df))

NoCall == [buffer |-> <<>>, start |-> 0, bytes |-> <<>>, total_rows |-> 0,
           projection |-> <<>>, str_columns |-> <<>>, file_chunks |-> <<>>,
           local_capacity |-> 0, n_threads |-> 0]

\* Lines 185-220 for the region and its estimate: the projection is taken,
\* then the divisions of lines 195 and 220 panic on a zero divisor and the
\* unwrap of line 208 on an index the schema does not have.
plan_chunks(reader, n_threads, buffer, start, bytes, total_rows, projection, chunk_size) ==
    IF chunk_size = 0 \/ n_threads = 0
    THEN [res |-> Panic("divide by zero"), taken |-> TRUE]
    ELSE IF \E k \in 1..Len(projection) : projection[k] >= NFields(reader)
    THEN [res |-> Panic("field unwrap"), taken |-> TRUE]
    ELSE [res |-> None, taken |-> TRUE,
          init_str_bytes |-> chunk_size * 100,
          call |-> [buffer |-> buffer,
                    start |-> start,
                    bytes |-> bytes,
                    total_rows |-> total_rows,
                    projection |-> projection,
                    str_columns |-> str_columns_of(reader, projection),
                    file_chunks |-> get_file_chunks(bytes, n_threads,
                                        NFields(reader), reader.delimiter),
                    local_capacity |-> total_rows \div n_threads,
                    n_threads |-> n_threads]]

plan_region(reader, n_threads, buffer, start, region, est) ==
    plan_chunks(reader, n_threads, buffer, start, Take(region, est.stop),
                est.total_rows, sorted_projection(reader),
                Min(reader.chunk_size, est.total_rows))

\* Line 142: the `?` on find_starting_point.
plan_from(reader, n_threads, buffer, sp) ==
    IF ~sp.ok THEN [res |-> Failure(sp.err), taken |-> FALSE]
    ELSE plan_region(reader, n_threads, buffer, sp.v, Drop(buffer, sp.v),
                     estimate(reader, Drop(buffer, sp.v)))

\* The locals of parse_csv up to the dispatch, for the buffer as_df hands
\* it (lines 142-220); its failure when it ends before.
plan(reader, n_threads, buffer) ==
    plan_from(reader, n_threads, buffer, find_starting_point(reader, buffer))

\* Lines 240-304 once the pool has drained: a worker's panic resumes in
\* the caller, else the saved error is returned, else the stacked frames.
pool_result(ws, saved) ==
    IF \E k \in 1..Len(ws) : ws[k].st = "panic" THEN Panic("worker")
    ELSE IF saved.some THEN Failure(saved.v)
    ELSE Frame(collect_frames(ws))

\* Lines 315-351 after parse_csv: `?` returns its error, a frame is
\* aggregated and truncated.
as_df_result(reader, agg, parsed) ==
    IF parsed.kind = "ok" THEN finish_df(reader, agg, parsed.df) ELSE parsed

Pending == [st |-> "pending", hint |-> <<>>, res |-> None, str_index |-> 0,
            read |-> 0]

InFlight(ws) == {k \in 1..Len(ws) : ws[k].st \in {"parsing", "updating"}}

\* ------------------------------------------------------------ actions
\* as_df up to the dispatch of the workers (lines 313-334, 139-240), or to
\* its return when it ends before.
AsDfBegin ==
    /\ pc = "idle"
    /\ Len(returns) < MaxCalls
    /\ IF byte_source(self) = "none"
       THEN /\ returns' = Append(returns, Failure(MustBeSet))
            /\ call' = NoCall
            /\ workers' = <<>>
            /\ str_capacities' = <<>>
            /\ saved_error' = None
            /\ finished' = <<>>
            /\ UNCHANGED <<self, pc>>
       ELSE \E p \in {plan(self,
                           IF self.n_threads.some THEN self.n_threads.v
                           ELSE HostCpus,
                           IF byte_source(self) = "path" THEN file
                           ELSE reader_bytes(file))} :
                /\ self' = [self EXCEPT
                               !.record_iter =
                                   IF byte_source(self) = "path" THEN @
                                   ELSE FALSE,
                               !.projection = IF p.taken THEN None ELSE @]
                /\ saved_error' = None
                /\ finished' = <<>>
                /\ IF p.res # None
                   THEN /\ returns' = Append(returns, p.res)
                        /\ call' = NoCall
                        /\ workers' = <<>>
                        /\ str_capacities' = <<>>
                        /\ pc' = "idle"
                   ELSE /\ call' = p.call
                        /\ workers' =
                               [k \in 1..Len(p.call.file_chunks) |-> Pending]
                        /\ str_capacities' =
                               [j \in 1..Len(p.call.str_columns) |->
                                   p.init_str_bytes]
                        /\ pc' = "dispatch"
                        /\ UNCHANGED returns
    /\ UNCHANGED <<built, args, file, predicate, aggregate>>

\* A pool thread takes sub-region k: init_buffers reads the capacity table
\* (lines 249-255).
WorkerStart(k) ==
    /\ pc = "dispatch"
    /\ workers[k].st = "pending"
    /\ Cardinality(InFlight(workers)) < call.n_threads
    /\ workers' = [workers EXCEPT ![k].st = "parsing",
                                  ![k].hint = str_capacities]
    /\ UNCHANGED <<self, built, args, file, predicate, aggregate, pc, call,
                   str_capacities, saved_error, finished, returns>>

\* The worker parses and filters its sub-region (lines 256-275), with
\* read = bytes_offset_thread (line 257); an error ends it.
WorkerParse(k) ==
    /\ pc = "dispatch"
    /\ workers[k].st = "parsing"
    /\ \E r \in {parse_chunk(self, call, call.file_chunks[k], predicate)} :
         \E st \in {IF ~r.ok THEN "err"
                    ELSE IF call.str_columns = <<>> THEN "ok"
                    ELSE "updating"} :
           /\ workers' = [workers EXCEPT ![k].st = st, ![k].res = r,
                                         ![k].read = call.file_chunks[k][1]]
           /\ saved_error' = IF r.ok THEN saved_error
                             ELSE save_error(saved_error, r.err)
           /\ finished' = IF st = "updating" THEN finished
                          ELSE Append(finished, k)
    /\ UNCHANGED <<self, built, args, file, predicate, aggregate, pc, call,
                   str_capacities, returns>>

\* One round of the str_columns loop (lines 279-297): the lookup panics or
\* the fetch_max raises the entry; after the last round the worker returns
\* its frame.
WorkerUpdateCap(k) ==
    /\ pc = "dispatch"
    /\ workers[k].st = "updating"
    /\ \E str_index \in {workers[k].str_index} :
         \E size \in {capacity_lookup(workers[k].res.v,
                                      call.str_columns[str_index + 1])} :
           IF ~size.some
           THEN /\ workers' = [workers EXCEPT ![k].st = "panic"]
                /\ finished' = Append(finished, k)
                /\ UNCHANGED str_capacities
           ELSE /\ str_capacities' =
                       [str_capacities EXCEPT
                           ![str_index + 1] = fetch_max(@, size.v)]
                /\ workers' = [workers EXCEPT
                                  ![k].str_index = str_index + 1,
                                  ![k].st =
                                      IF str_index + 1 = Len(call.str_columns)
                                      THEN "ok" ELSE @]
                /\ finished' = IF str_index + 1 = Len(call.str_columns)
                               THEN Append(finished, k)
                               ELSE finished
    /\ UNCHANGED <<self, built, args, file, predicate, aggregate, pc, call,
                   saved_error, returns>>

\* The pool has drained: every sub-region was parsed, or a worker failed
\* and no worker is running.  as_df returns (lines 301-304, 336-351).
AsDfEnd ==
    /\ pc = "dispatch"
    /\ InFlight(workers) = {}
    /\ \/ \A k \in 1..Len(workers) : workers[k].st = "ok"
       \/ \E k \in 1..Len(workers) : workers[k].st \in {"err", "panic"}
    /\ returns' = Append(returns,
           as_df_result(self, aggregate, pool_result(workers, saved_error)))
    /\ pc' = "idle"
    /\ UNCHANGED <<self, built, args, file, predicate, aggregate, call,
                   str_capacities, workers, saved_error, finished>>

Next ==
    \/ AsDfBegin
    \/ \E k \in 1..Len(workers) : WorkerStart(k)
    \/ \E k \in 1..Len(workers) : WorkerParse(k)
    \/ \E k \in 1..Len(workers) : WorkerUpdateCap(k)
    \/ AsDfEnd

\* ------------------------------------------------------ initial states
TheSchema == <<"i32", "str", "str">>

\* Data lines: a valid record, a record whose first field is no number, a
\* record whose last field is quoted and holds a line break, a record of
\* one field.
Good == <<"1", COMMA, "x", COMMA, "x", LF>>
Bad == <<"x", COMMA, "x", COMMA, "x", LF>>
Quoted == <<"1", COMMA, "x", COMMA, QUOTE, LF, "1", COMMA, COMMA, QUOTE, LF>>
Short == <<"1", LF>>

\* The concatenations of at most n lines of kinds.
RECURSIVE LinesOf(_, _)
LinesOf(kinds, n) ==
    IF n = 0 THEN {<<>>}
    ELSE LET shorter == LinesOf(kinds, n - 1)
         IN  shorter \cup {l \o s : l \in kinds, s \in shorter}

Options(S) == {None} \cup {Some(x) : x \in S}

InitWith(files, readers, predicates, aggregates) ==
    /\ file \in files
    /\ self \in readers
    /\ built = self
    /\ args = NoArgs
    /\ predicate \in predicates
    /\ aggregate \in aggregates
    /\ pc = "idle"
    /\ call = NoCall
    /\ str_capacities = <<>>
    /\ workers = <<>>
    /\ saved_error = None
    /\ finished = <<>>
    /\ returns = <<>>

\* A record longer than twice Good, whose last field is not x.
Long == <<"1", COMMA, "x", "x", "x", "x", "x", "x", "x", "x", COMMA, "y", LF>>

\* What may precede the first line.
Preambles ==
    {<<>>, BOM, <<SPACE>>, <<LF>>, <<CR, LF>>, BOM \o <<SPACE, SPACE, LF>>,
     <<SPACE>> \o BOM, <<LF, LF>>}

\* Readers of the file at a path, with and without a projection, a row
\* limit with an aggregation, a predicate; the lines may fail to parse.
Init ==
    InitWith(LinesOf({Good, Bad, Quoted}, MaxLines),
             {from_reader(TheSchema, FALSE, COMMA, projection, FALSE, n_rows,
                          0, Some(n_threads), Some("p"), 2, 2) :
                 projection \in Options({<<1, 0>>, <<0, 2>>}),
                 n_rows \in Options({1}),
                 n_threads \in 1..MaxThreads},
             Options(Predicates),
             Options({<<"last">>}))

Spec == Init /\ [][Next]_vars

\* Readers with a row limit: lines of two lengths, statistics sampled from
\* the first two lines.
InitRows ==
    InitWith(LinesOf({Good, Long}, MaxRowLines),
             {from_reader(TheSchema, FALSE, COMMA, None, TRUE, n_rows,
                          0, Some(n_threads), Some("p"), 2, 2) :
                 n_rows \in Options(0..MaxNRows),
                 n_threads \in 1..MaxThreads},
             Options({"last_is_x"}),
             Options({<<>>, <<"first", "last">>}))

SpecRows == InitRows /\ [][Next]_vars

\* Readers over a path or a reader whose input starts with a preamble and
\* may hold a header and lines to skip.
InitPre ==
    InitWith({p \o l : p \in Preambles,
                       l \in LinesOf({Good, Short}, MaxPreLines)},
             {from_reader(TheSchema, has_header, COMMA, None, FALSE, None,
                          skip_rows, n_threads, path, 2, 2) :
                 has_header \in BOOLEAN,
                 skip_rows \in 0..MaxSkip,
                 n_threads \in {None, Some(1)},
                 path \in Options({"p"})},
             {None},
             {None})

SpecPre == InitPre /\ [][Next]_vars

\* The sequences over S of length at most n.
RECURSIVE SeqsUpTo(_, _)
SeqsUpTo(S, n) ==
    IF n = 0 THEN {<<>>}
    ELSE LET shorter == SeqsUpTo(S, n - 1)
         IN  shorter \cup {<<x>> \o q : x \in S, q \in shorter}

\* What infer_file_schema may return: a schema, or its error.
InferError == [kind |-> "InferError"]
Inferred == {Ok(TheSchema), Ok(<<"i32", "str">>), Err(InferError)}

\* The state once build_csv_reader has returned `r` for the arguments `a`:
\* the reader, or no reader to call.
Constructed(a, r) ==
    /\ args = a
    /\ built = (IF r.ok THEN r.v ELSE [error |-> r.err])
    /\ self = built
    /\ pc = (IF r.ok THEN "idle" ELSE "unbuilt")

\* Readers that build_csv_reader made from column names, an index
\* projection, a supplied or an inferred schema.
InitBuild ==
    /\ file \in LinesOf({Good}, 2)
    /\ \E columns \in Options(SeqsUpTo({"a", "b", "c", "z"}, MaxColumns)),
          projection \in Options({<<2>>, <<1, 0>>}),
          sch \in Options({TheSchema}),
          inferred \in Inferred :
         Constructed([called |-> TRUE, columns |-> columns,
                      projection |-> projection, schema |-> sch,
                      inferred |-> inferred],
                     build_csv_reader(None, 0, projection, None, FALSE, FALSE,
                                      sch, columns, Some(2), Some("p"), 2, 2,
                                      inferred))
    /\ predicate = None
    /\ aggregate = None
    /\ call = NoCall
    /\ str_capacities = <<>>
    /\ workers = <<>>
    /\ saved_error = None
    /\ finished = <<>>
    /\ returns = <<>>

SpecBuild == InitBuild /\ [][Next]_vars

\* A record whose second field holds n bytes.
Wide(n) == <<"1", COMMA>> \o [i \in 1..n |-> "x"] \o <<COMMA, "x", LF>>

\* Readers whose workers meet string columns larger than the first
\* capacity of 100 bytes a row.
InitCap ==
    InitWith(LinesOf({Good, Wide(101), Wide(130)}, MaxCapLines),
             {from_reader(TheSchema, FALSE, COMMA, None, FALSE, None,
                          0, Some(n_threads), Some("p"), 2, chunk_size) :
                 n_threads \in 1..MaxThreads,
                 chunk_size \in 1..2},
             {None},
             {None})

SpecCap == InitCap /\ [][Next]_vars

\* Readers with a row limit whose frames are aggregated: the first column
\* of a line that fails to parse is null.
InitAgg ==
    InitWith(LinesOf({Good, Bad}, MaxAggLines),
             {from_reader(TheSchema, FALSE, COMMA, None, TRUE, Some(n_rows),
                          0, Some(n_threads), Some("p"), 2, 2) :
                 n_rows \in 1..2,
                 n_threads \in 1..MaxThreads},
             {None},
             {Some(<<"last">>), Some(<<"first", "last">>)})

SpecAgg == InitAgg /\ [][Next]_vars

\* ------------------------------------------------------------- claims
\* The last as_df call has returned, and it had dispatched its workers.
Done == pc = "idle" /\ returns # <<>>
Dispatched == workers # <<>>
LastReturn == returns[Len(returns)]

\* What the call returns when its region is parsed as one sub-region, which
\* is what n_threads = 1 does.
SequentialFrame == parse_chunk(self, call, <<0, Len(call.bytes)>>, predicate)

SequentialResult ==
    IF ~SequentialFrame.ok THEN Failure(SequentialFrame.err)
    ELSE IF \E j \in 1..Len(call.str_columns) :
                ~capacity_lookup(SequentialFrame.v, call.str_columns[j]).some
         THEN Panic("worker")
         ELSE finish_df(self, aggregate, SequentialFrame.v)

\* C1: with ignore_parser_errors = false and an input the sequential parse
\* accepts, as_df with any n_threads returns the frame that the parse of the
\* whole region as one sub-region returns.
C1_ParallelEqualsSequential ==
    (Done /\ Dispatched /\ ~self.ignore_parser_errors
          /\ SequentialResult.kind = "ok")
        => LastReturn = SequentialResult

\* The sub-regions are laid left to right over the region, without gap or
\* overlap.
Contiguous(chunks, len) ==
    /\ chunks[1][1] = 0
    /\ chunks[Len(chunks)][2] = len
    /\ \A k \in 1..(Len(chunks) - 1) : chunks[k][2] = chunks[k + 1][1]

\* The partial frames of ws laid one after the other, column by column, in
\* the order of the sequence of sub-region numbers `order`.
Stacked(ws, order) ==
    [c \in 1..Len(call.projection) |->
        Column(call.projection[c], self.schema[call.projection[c] + 1],
               Flatten([j \in 1..Len(order) |-> ws[order[j]].res.v[c].vals]))]

AllOk == \A k \in 1..Len(workers) : workers[k].st = "ok"
Failed == {k \in 1..Len(workers) : workers[k].st = "err"}

\* C2: whatever the order in which the workers ended, the frame returned is
\* built from the partial frame of sub-region 1, then that of sub-region 2,
\* and so on, the sub-regions being laid left to right over the input.
C2_RowsInInputOrder ==
    (Done /\ Dispatched /\ AllOk)
        => /\ Contiguous(call.file_chunks, Len(call.bytes))
           /\ LastReturn = finish_df(self, aggregate,
                  Stacked(workers, [k \in 1..Len(workers) |-> k]))

\* The second sub-region's worker ended first, and the other order of
\* stacking would have given another frame.
C2_Witness ==
    /\ Done /\ Dispatched /\ AllOk
    /\ finished = <<2, 1>>
    /\ ~aggregate.some /\ ~self.n_rows.some
    /\ LastReturn.kind = "ok"
    /\ Stacked(workers, <<2, 1>>) # Stacked(workers, <<1, 2>>)

Ascending(names) == \A i \in 1..(Len(names) - 1) : names[i] <= names[i + 1]

Range(f) == {f[i] : i \in DOMAIN f}

\* C5: the columns of a returned frame (one that no aggregation replaced)
\* are in ascending order of schema index; without a projection they are
\* all the columns of the schema, and the first read of a reader built with
\* a projection returns exactly the columns of that projection.
C5_ColumnsAscending ==
    (Done /\ LastReturn.kind = "ok" /\ ~aggregate.some)
        => /\ Ascending(ColumnNames(LastReturn.df))
           /\ ~built.projection.some
                => ColumnNames(LastReturn.df)
                       = [k \in 1..Len(built.schema) |-> k - 1]
           /\ (built.projection.some /\ Len(returns) = 1)
                => /\ Len(LastReturn.df) = Len(built.projection.v)
                   /\ Range(ColumnNames(LastReturn.df))
                          = Range(built.projection.v)

\* An unsorted projection was requested and rows came back.
C5_Witness ==
    /\ Done /\ Len(returns) = 1 /\ ~aggregate.some
    /\ built.projection = Some(<<1, 0>>)
    /\ LastReturn.kind = "ok"
    /\ ColumnNames(LastReturn.df) = <<0, 1>>
    /\ height(LastReturn.df) > 0

\* C6: a second as_df on the same reader returns what the first returned.
C6_Idempotent ==
    (pc = "idle" /\ Len(returns) >= 2) => returns[2] = returns[1]

\* C7: between calls, schema() of a reader built with a projection is the
\* schema's fields selected by that projection.
C7_SchemaProjected ==
    (pc = "idle" /\ built.projection.some)
        => schema(self) = [k \in 1..Len(built.projection.v) |->
                              built.schema[built.projection.v[k] + 1]]

\* C8: when a worker has failed, as_df returns an error.
C8_WorkerFailureIsError ==
    (Done /\ Dispatched /\ Failed # {}) => LastReturn.kind = "err"

\* C9: when several workers have failed, the error returned is that of the
\* failed sub-region of smallest index.
C9_FirstErrorInRegionOrder ==
    (Done /\ Dispatched /\ Cardinality(Failed) >= 2 /\ LastReturn.kind = "err")
        => LastReturn.err
               = workers[CHOOSE k \in Failed : \A j \in Failed : k <= j].res.err

\* C9 as amended: the error returned is that of the failed worker that
\* ended first.
C9_FirstErrorInCompletionOrder ==
    (Done /\ Dispatched /\ LastReturn.kind = "err")
        => LET first == CHOOSE j \in 1..Len(finished) :
                            /\ finished[j] \in Failed
                            /\ \A i \in 1..(j - 1) : finished[i] \notin Failed
           IN  LastReturn.err = workers[finished[first]].res.err

\* Both workers failed with different errors and the second sub-region's
\* error was returned.
C9_Witness ==
    /\ Done /\ Dispatched /\ Failed = {1, 2}
    /\ finished = <<2, 1>>
    /\ workers[1].res.err # workers[2].res.err
    /\ LastReturn = Failure(workers[2].res.err)

\* C3: a frame returned by a reader with n_rows set has at most n_rows rows.
C3_HeightAtMostNRows ==
    (Done /\ self.n_rows.some /\ LastReturn.kind = "ok")
        => height(LastReturn.df) <= self.n_rows.v

\* The workers returned more than n_rows rows and the frame returned has
\* n_rows rows.
C3_Witness ==
    /\ Done /\ Dispatched /\ AllOk
    /\ self.n_rows.some /\ ~aggregate.some
    /\ height(Stacked(workers, [k \in 1..Len(workers) |-> k])) > self.n_rows.v
    /\ LastReturn.kind = "ok"
    /\ height(LastReturn.df) = self.n_rows.v

\* The parse of everything that follows the preamble, as one sub-region.
WholeParse ==
    frame_of(parse_lines(Drop(call.buffer, call.start), 0, self.delimiter,
                         call.projection, self.schema,
                         self.ignore_parser_errors),
             call.projection, self.schema)

\* C4: with n_rows set, no predicate and no aggregation, the frame returned
\* is the sequential parse of the whole input cut to its first n_rows rows.
C4_EqualsTruncatedSequential ==
    (Done /\ Dispatched /\ self.n_rows.some /\ ~predicate.some
          /\ ~aggregate.some /\ LastReturn.kind = "ok" /\ WholeParse.ok)
        => LastReturn.df = slice(WholeParse.v, self.n_rows.v)

\* The buffer the first call hands to parse_csv.
FirstBuffer == IF built.path.some THEN file ELSE reader_bytes(file)

\* The offset that follows the BOM, the blanks, one line ending and, with
\* has_header, the first line (the rest of the buffer when it has no
\* terminator).
AfterHeader ==
    LET o1 == skip_bom(FirstBuffer)
        o2 == o1 + skip_whitespace(Drop(FirstBuffer, o1))
        o3 == o2 + skip_line_ending(Drop(FirstBuffer, o2))
        hd == LineLengths(FirstBuffer, o3 + 1, 1)
    IN  IF ~built.has_header THEN o3
        ELSE IF hd = <<>> THEN Len(FirstBuffer)
        ELSE o3 + hd[1]

\* The lengths of the skip_rows lines that follow the header.
SkippedLines == LineLengths(FirstBuffer, AfterHeader + 1, built.skip_rows)

\* C10: the first call fails with "not enough lines to skip", before any
\* worker, when fewer than skip_rows lines follow the header; otherwise it
\* parses from the first byte after the skip_rows-th of these lines.
C10_PreambleTrim ==
    (Done /\ Len(returns) = 1)
        => IF Len(SkippedLines) < built.skip_rows
           THEN ~Dispatched /\ LastReturn = Failure(NoData)
           ELSE /\ Dispatched
                /\ call.start = AfterHeader + SumSeq(SkippedLines)

\* C11: a call returns "file or reader must be set" exactly when the
\* reader has neither a path nor a record_iter; a call that reaches the
\* workers hands them the file's bytes when a path is set, whether or not a
\* record_iter is present, and else all the bytes of the reader.
C11_SourceSelection ==
    [][(pc = "idle" /\ (returns' # returns \/ pc' = "dispatch"))
          => /\ (returns' = Append(returns, Failure(MustBeSet)))
                    <=> (~self.path.some /\ ~self.record_iter)
             /\ (pc' = "dispatch" /\ self.path.some) => call'.buffer = file
             /\ (pc' = "dispatch" /\ ~self.path.some)
                    => /\ Take(call'.buffer, Len(file)) = file
                       /\ Len(call'.buffer) <= Len(file) + 1]_vars

\* A reader without a path was read once, and its second call found the
\* record_iter gone.
C11_Witness ==
    /\ Done /\ Len(returns) = 2
    /\ ~self.path.some /\ ~self.record_iter
    /\ returns[1].kind = "ok" /\ height(returns[1].df) > 0
    /\ returns[2] = Failure(MustBeSet)

\* The schema build_csv_reader works with, when it has one.
HasSchema == args.schema.some \/ args.inferred.ok
BuildSchema == IF args.schema.some THEN args.schema.v ELSE args.inferred.v

\* The names of the fields of BuildSchema.
Known == {FieldNames[i] : i \in 1..Len(BuildSchema)}

\* C12: with column names, build_csv_reader returns the error of an absent
\* name and no reader when a name is absent from the schema; otherwise the
\* reader's projection is the schema indices of the names in their order,
\* whatever index projection was passed.
C12_ColumnsProjection ==
    (args # NoArgs /\ args.columns.some /\ HasSchema)
        => IF \E k \in 1..Len(args.columns.v) : args.columns.v[k] \notin Known
           THEN /\ pc = "unbuilt"
                /\ \E k \in 1..Len(args.columns.v) :
                       /\ args.columns.v[k] \notin Known
                       /\ built = [error |-> NotFound(args.columns.v[k])]
           ELSE /\ pc # "unbuilt"
                /\ built.projection =
                       Some([k \in 1..Len(args.columns.v) |->
                               (CHOOSE i \in 1..Len(BuildSchema) :
                                   FieldNames[i] = args.columns.v[k]) - 1])

\* Names given out of schema order, next to an index projection, over an
\* inferred schema; the reader was built and read.
C12_Witness ==
    /\ args # NoArgs
    /\ args.columns = Some(<<"b", "a">>)
    /\ args.projection = Some(<<2>>)
    /\ ~args.schema.some
    /\ pc # "unbuilt"
    /\ built.projection = Some(<<1, 0>>)
    /\ Done /\ LastReturn.kind = "ok"

\* The input ends with a record terminator.
Terminated(bytes) == bytes # <<>> /\ bytes[Len(bytes)] \in {LF, CR}

\* C13: the buffer handed to parse_csv ends with a terminator when it is
\* not empty, and is the input with one LF appended exactly when the input
\* is not empty and its last byte is neither LF nor CR.
C13_BufferTerminated ==
    pc = "dispatch"
        => /\ call.buffer # <<>> => Terminated(call.buffer)
           /\ call.buffer = IF file = <<>> \/ Terminated(file) THEN file
                            ELSE Append(file, LF)

\* The column of the frame df that holds the schema field i.
FieldColumn(df, i) == df[CHOOSE c \in 1..width(df) : df[c].name = i]

\* C14: no worker fails in the capacity update, and once a worker has
\* returned its frame every projected string column's entry of the table is
\* at least the bytes that column uses in the worker's frame.
C14_CapacityFeedback ==
    \A k \in 1..Len(workers) :
        /\ workers[k].st # "panic"
        /\ workers[k].st = "ok"
              => \A j \in 1..Len(call.str_columns) :
                    str_capacities[j] >=
                        get_values_size(FieldColumn(workers[k].res.v,
                                                    call.str_columns[j]))

\* The value the entries of the table start with (lines 194 and 210).
InitialCapacity == Min(self.chunk_size, call.total_rows) * 100

\* The largest of the numbers of S, or 0.
MaxOf(S) == IF S = {} THEN 0 ELSE CHOOSE m \in S : \A x \in S : x <= m

\* The bytes the workers that returned a frame used for the schema field i.
Observed(i) ==
    {get_values_size(FieldColumn(workers[k].res.v, i)) :
        k \in {w \in 1..Len(workers) : workers[w].st = "ok"}}

\* C15: while the workers of a call run, no entry of the capacity table
\* decreases or is below its first value, and once every worker has
\* returned its frame each entry is the larger of its first value and the
\* most bytes a worker used for its column.
C15_CapacityMonotone ==
    /\ [][pc = "dispatch"
            => \A j \in 1..Len(str_capacities) :
                   str_capacities'[j] >= str_capacities[j]]_vars
    /\ [](Dispatched
            => /\ \A j \in 1..Len(str_capacities) :
                      str_capacities[j] >= InitialCapacity
               /\ AllOk
                    => \A j \in 1..Len(str_capacities) :
                          str_capacities[j] =
                              Max(InitialCapacity,
                                  MaxOf(Observed(call.str_columns[j]))))

\* Two workers used different numbers of bytes above the first capacity;
\* the one that used fewer updated the table last.
C15_Witness ==
    /\ Dispatched /\ AllOk /\ Len(workers) = 2
    /\ finished = <<1, 2>>
    /\ get_values_size(FieldColumn(workers[2].res.v, 1)) > InitialCapacity
    /\ get_values_size(FieldColumn(workers[1].res.v, 1))
           > get_values_size(FieldColumn(workers[2].res.v, 1))
    /\ str_capacities[1] = get_values_size(FieldColumn(workers[1].res.v, 1))

\* The parse of the call's region as one sub-region, without a predicate.
RegionParse ==
    frame_of(parse_lines(call.bytes, 0, self.delimiter, call.projection,
                         self.schema, self.ignore_parser_errors),
             call.projection, self.schema)

\* C16: with a predicate and no n_rows, the frame returned holds the rows
\* of the sequential parse that satisfy the predicate, in input order,
\* whatever the number of sub-regions.
C16_PredicateFilters ==
    (Done /\ Dispatched /\ predicate.some /\ ~self.n_rows.some
          /\ ~aggregate.some /\ RegionParse.ok
          /\ evaluate(predicate.v, RegionParse.v).ok)
        => LastReturn =
               Frame(filter(RegionParse.v,
                            evaluate(predicate.v, RegionParse.v).v))

\* C17: the offset a worker hands to parse_lines is the offset of its
\* sub-region in the buffer as_df handed to parse_csv, preamble included.
C17_AbsoluteOffset ==
    \A k \in 1..Len(workers) :
        workers[k].st \notin {"pending", "parsing"}
            => workers[k].read = call.start + call.file_chunks[k][1]

\* C18: the projection the workers of a call are handed is a strictly
\* increasing sequence of schema indices.
C18_ProjectionStrictlyIncreasing ==
    pc = "dispatch"
        => /\ \A k \in 1..Len(call.projection) :
                  call.projection[k] \in 0..(Len(self.schema) - 1)
           /\ \A k \in 1..(Len(call.projection) - 1) :
                  call.projection[k] < call.projection[k + 1]

\* C19: no call ends in a division by zero, and the calls that reach the
\* workers divided by a chunk_size and an n_threads of at least 1.
C19_DivisorsNonZero ==
    /\ \A i \in 1..Len(returns) : returns[i] # Panic("divide by zero")
    /\ pc = "dispatch"
          => /\ Min(self.chunk_size, call.total_rows) >= 1
             /\ call.n_threads >= 1

\* The frames of the workers stacked in sub-region order.
Concatenated == Stacked(workers, [k \in 1..Len(workers) |-> k])

\* One column per aggregation, each computed over the stacked frame.
Aggregated ==
    [a \in 1..Len(aggregate.v) |-> finish(aggregate.v[a], Concatenated)]

\* C20: with aggregations and n_rows, the frame returned is the columns the
\* aggregations computed over the whole stacked frame, cut to n_rows rows
\* when they are longer.
C20_AggregateThenTruncate ==
    (Done /\ Dispatched /\ AllOk /\ aggregate.some /\ self.n_rows.some
          /\ LastReturn.kind = "ok")
        => LastReturn.df = IF self.n_rows.v < height(Aggregated)
                           THEN slice(Aggregated, self.n_rows.v)
                           ELSE Aggregated

\* The stacked frame has more than n_rows rows and its last row, which the
\* aggregation returned, differs from its n_rows-th row.
C20_Witness ==
    /\ Done /\ Dispatched /\ AllOk /\ self.n_rows.some
    /\ aggregate = Some(<<"last">>)
    /\ height(Concatenated) > self.n_rows.v
    /\ Concatenated[1].vals[height(Concatenated)]
           # Concatenated[1].vals[self.n_rows.v]
    /\ LastReturn.kind = "ok"
    /\ LastReturn.df[1].vals = <<Concatenated[1].vals[height(Concatenated)]>>

=============================================================================
